---- MODULE Spec2Model ----
(***************************************************************************)
(* PsfLauncher (src/PsfLauncher/main.cpp): launcher_main and the stages it *)
(* drives -- CheckIfPowershellIsInstalled, RunScript, GetAndLaunchMonitor, *)
(* LaunchMonitorInBackground, StartProcess, StartWithShellExecute.         *)
(* One action per step of the straight-line orchestrator; the results of   *)
(* the OS calls (registry, file system, CreateProcessW, ShellExecuteEx,    *)
(* WaitForSingleObject) and the exits of the children are the environment. *)
(***************************************************************************)
EXTENDS Integers, Sequences, FiniteSets

VARIABLES
    cfg,                    \* what the config provider returns for this run
    pc,                     \* position of launcher_main
    stage,                  \* the stage whose code is running ("none" between stages)
    sp,                     \* arguments of the StartProcess call in progress
    ret,                    \* ErrorInformation returned by the stage in progress
    error,                  \* launcher_main's local `error`
    endingScriptError,      \* launcher_main's local `endingScriptError`
    isPowershellInstalled,  \* launcher_main's local `isPowershellInstalled`
    reports,                \* calls of PSFReportError, in order
    exitCode,               \* value returned by launcher_main (meaningful at pc = "Done")
    children,               \* per stage: state of the child process it created
    launches,               \* log of the launch calls issued to the OS, in order
    calls,                  \* log of stage entries and returns, in order
    failed,                 \* log of the errors constructed during the run, in order
    waitFailed,             \* stages whose wait returned without the child having exited
    handles,                \* stages whose child process handle is still open
    attrLists,              \* stages whose attribute list memory is still allocated
    execInfo,               \* ExecutionInformation whose failed launch is being described
    applicationNameForError \* the name StartProcess puts in its create-failure message

vars == <<cfg, pc, stage, sp, ret, error, endingScriptError, isPowershellInstalled,
          reports, exitCode, children, launches, calls, failed, waitFailed,
          handles, attrLists, execInfo, applicationNameForError>>

----------------------------------------------------------------------------
(* Bounds and program constants *)

\* number of distinct OS error codes GetLastError() may produce in the model
MaxOsErrors == 2

ERROR_FILE_NOT_FOUND == 2
ERROR_NOT_FOUND == 1168
\* HRESULT 0x80270254 returned as a signed int
E_APPLICATION_NOT_REGISTERED == -2144927148

\* codes a failed OS call leaves in GetLastError() / returns as LSTATUS: never 0
OsErrors == ERROR_FILE_NOT_FOUND .. (ERROR_FILE_NOT_FOUND + MaxOsErrors - 1)

Stages == {"pre", "monitor", "primary", "post"}

StageOrder(s) ==
    CASE s = "pre" -> 1 [] s = "monitor" -> 2 [] s = "primary" -> 3 [] s = "post" -> 4

----------------------------------------------------------------------------
(* ErrorInformation (ErrorInformation.h): message, number, executable name *)

NoError == [isErr |-> FALSE, msg |-> "", code |-> 0, exe |-> ""]

MkError(m, c) == [isErr |-> TRUE, msg |-> m, code |-> c, exe |-> ""]

AddExeName(e, name) == [e EXCEPT !.exe = name]

\* the text handed to PSFReportError by error.Print()
PrintError(e) == [msg |-> e.msg, code |-> e.code, exe |-> e.exe]

\* a literal text handed to PSFReportError
Text(m) == [msg |-> m, code |-> 0, exe |-> ""]

----------------------------------------------------------------------------
(* Configuration *)

NoScript == [present |-> FALSE, riv |-> "absent"]

\* riv: the "runInVirtualEnvironment" entry of the script object
ScriptSpecs == {NoScript} \cup [present : {TRUE}, riv : {"absent", "true", "false"}]

NoMonitor == [present |-> FALSE, asAdmin |-> FALSE, wait |-> FALSE]

MonitorSpecs == {NoMonitor} \cup [present : {TRUE}, asAdmin : BOOLEAN, wait : BOOLEAN]

\* the "executable" entry of the launch entry, as a sequence of characters
Executables == { <<"a", ".", "e", "x", "e">>,
                 <<"a", ".", "E", "X", "e">>,
                 <<"d", ".", "p", "d", "f">>,
                 <<"e", "x", "e">> }

Lower(c) ==
    CASE c = "E" -> "e" [] c = "X" -> "x" [] c = "A" -> "a" [] c = "D" -> "d"
      [] c = "P" -> "p" [] c = "F" -> "f" [] OTHER -> c

DotExe == <<".", "e", "x", "e">>

\* iwstring_view comparison: character by character, ignoring case
IEqual(s, t) ==
    /\ Len(s) = Len(t)
    /\ \A i \in 1 .. Len(s) : Lower(s[i]) = Lower(t[i])

\* variant: the suffix is compared with the case of the characters
check_suffix_if_CaseSensitive(str, suffix) ==
    /\ Len(str) >= Len(suffix)
    /\ SubSeq(str, Len(str) - Len(suffix) + 1, Len(str)) = suffix

check_suffix_if(str, suffix) ==
    /\ Len(str) >= Len(suffix)
    /\ IEqual(SubSeq(str, Len(str) - Len(suffix) + 1, Len(str)), suffix)

Configs ==
    [hasConfig : {TRUE}, pre : ScriptSpecs, post : ScriptSpecs,
     monitor : MonitorSpecs, executable : Executables]
    \cup
    [hasConfig : {FALSE}, pre : {NoScript}, post : {NoScript},
     monitor : {NoMonitor}, executable : {<<"a", ".", "e", "x", "e">>}]

\* ApplicationName is a pointer: hasApp is false for nullptr
NoExecInfo == [hasApp |-> FALSE, app |-> <<>>, cmd |-> <<>>]

NoCall == [app |-> "null", riv |-> FALSE, attr |-> FALSE]

Init ==
    /\ cfg \in Configs
    /\ pc = "Start"
    /\ stage = "none"
    /\ sp = NoCall
    /\ ret = NoError
    /\ error = NoError
    /\ endingScriptError = NoError
    /\ isPowershellInstalled = FALSE
    /\ reports = <<>>
    /\ exitCode = 0
    /\ children = [s \in Stages |-> "none"]
    /\ launches = <<>>
    /\ calls = <<>>
    /\ failed = <<>>
    /\ waitFailed = {}
    /\ handles = {}
    /\ attrLists = {}
    /\ execInfo = NoExecInfo
    /\ applicationNameForError = <<>>

----------------------------------------------------------------------------
(* launcher_main: configuration and interpreter probe *)

\* `return code` of launcher_main, after the optional PSFReportError
Return(code) ==
    /\ exitCode' = code
    /\ pc' = "Done"

ReportAndReturn(text, code) ==
    /\ reports' = Append(reports, text)
    /\ Return(code)

Fail(s, e) == Append(failed, [stage |-> s, msg |-> e.msg, code |-> e.code])

QueryConfig ==
    /\ pc = "Start"
    /\ IF cfg.hasConfig
         THEN /\ pc' = "Probe"
              /\ failed' = failed
         ELSE /\ pc' = "Catch"
              /\ failed' = Fail("config", MkError("could not find matching appid", ERROR_NOT_FOUND))
    /\ UNCHANGED <<execInfo, applicationNameForError, cfg, stage, sp, ret, error, endingScriptError, isPowershellInstalled,
                   reports, exitCode, children, launches, calls, waitFailed, handles,
                   attrLists>>

CatchHandler ==
    /\ pc = "Catch"
    /\ ReportAndReturn(Text("could not find matching appid"), ERROR_NOT_FOUND)
    /\ UNCHANGED <<execInfo, applicationNameForError, cfg, stage, sp, ret, error, endingScriptError, isPowershellInstalled,
                   children, launches, calls, failed, waitFailed, handles, attrLists>>

\* createResult, getResult: 0 is ERROR_SUCCESS; installed is the caller's
\* variable, left as it was when the function returns early
CheckIfPowershellIsInstalled(installed, createResult, getResult, valueFromRegistry) ==
    IF createResult # 0
      THEN [installed |-> installed,
            error |-> MkError("Error with getting the key", createResult)]
    ELSE IF getResult # 0
      THEN [installed |-> installed,
            error |-> MkError("Error with querying the key", getResult)]
    ELSE [installed |-> (valueFromRegistry = 1), error |-> NoError]

ProbePowershell ==
    /\ pc = "Probe"
    /\ \E createResult \in {0} \cup OsErrors, getResult \in {0} \cup OsErrors,
          valueFromRegistry \in 0 .. 2 :
         LET r == CheckIfPowershellIsInstalled(FALSE, createResult, getResult,
                                               valueFromRegistry)
         IN  /\ isPowershellInstalled' = r.installed
             /\ error' = r.error
             /\ IF r.error.isErr
                  THEN /\ failed' = Fail("probe", r.error)
                       /\ ReportAndReturn(PrintError(r.error), r.error.code)
                  ELSE /\ pc' = "PreScript"
                       /\ UNCHANGED <<failed, reports, exitCode>>
    /\ UNCHANGED <<execInfo, applicationNameForError, cfg, stage, sp, ret, endingScriptError, children, launches, calls,
                   waitFailed, handles, attrLists>>

----------------------------------------------------------------------------
(* Script stage *)

LaunchPreScript ==
    /\ pc = "PreScript"
    /\ IF ~cfg.pre.present
         THEN /\ pc' = "Monitor"
              /\ UNCHANGED <<stage, calls, failed, reports, exitCode>>
       ELSE IF ~isPowershellInstalled
         THEN /\ failed' = Fail("pre", MkError("PowerShell is not installed",
                                                E_APPLICATION_NOT_REGISTERED))
              /\ ReportAndReturn(Text("PowerShell is not installed"),
                                 E_APPLICATION_NOT_REGISTERED)
              /\ UNCHANGED <<stage, calls>>
       ELSE /\ stage' = "pre"
            /\ calls' = Append(calls, <<"call", "pre">>)
            /\ pc' = "RunScript"
            /\ UNCHANGED <<failed, reports, exitCode>>
    /\ UNCHANGED <<execInfo, applicationNameForError, cfg, sp, ret, error, endingScriptError, isPowershellInstalled,
                   children, launches, waitFailed, handles, attrLists>>

ScriptOf(s) == IF s = "pre" THEN cfg.pre ELSE cfg.post

\* variant: the flag is inverted on its way to StartProcess
RunInVirtualEnvironment_Inverted(script) == script.riv = "absent"

\* bool runInVirtualEnvironment = false; if the entry is there it is assigned
\* as_string().wide(), a non-null pointer, whatever the text says
RunInVirtualEnvironment(script) == script.riv # "absent"

\* variant: a missing script file is returned with the code of the missing
\* launch entry
RunScript_WrongCode ==
    /\ pc = "RunScript"
    /\ \E doesFileExist \in BOOLEAN :
         IF doesFileExist
           THEN /\ sp' = [app |-> "null",
                          riv |-> RunInVirtualEnvironment(ScriptOf(stage)),
                          attr |-> FALSE]
                /\ pc' = "SP_attr"
                /\ UNCHANGED <<ret, failed>>
           ELSE /\ ret' = MkError("The PowerShell file can't be found", ERROR_NOT_FOUND)
                /\ failed' = Fail(stage, ret')
                /\ pc' = "StageRet"
                /\ sp' = sp
    /\ UNCHANGED <<execInfo, applicationNameForError, cfg, stage, error, endingScriptError, isPowershellInstalled, reports,
                   exitCode, children, launches, calls, waitFailed, handles, attrLists>>

RunScript ==
    /\ pc = "RunScript"
    /\ \E doesFileExist \in BOOLEAN :
         IF doesFileExist
           THEN /\ sp' = [app |-> "null",
                          riv |-> RunInVirtualEnvironment(ScriptOf(stage)),
                          attr |-> FALSE]
                /\ pc' = "SP_attr"
                /\ UNCHANGED <<ret, failed>>
           ELSE /\ ret' = MkError("The PowerShell file can't be found", ERROR_FILE_NOT_FOUND)
                /\ failed' = Fail(stage, ret')
                /\ pc' = "StageRet"
                /\ sp' = sp
    /\ UNCHANGED <<execInfo, applicationNameForError, cfg, stage, error, endingScriptError, isPowershellInstalled, reports,
                   exitCode, children, launches, calls, waitFailed, handles, attrLists>>

----------------------------------------------------------------------------
(* StartProcess *)

StartProcessAttributes ==
    /\ pc = "SP_attr"
    /\ IF sp.riv
         THEN \E initOk \in BOOLEAN, updateOk \in BOOLEAN :
                /\ attrLists' = attrLists \cup {stage}
                /\ sp' = [sp EXCEPT !.attr = initOk /\ updateOk]
         ELSE UNCHANGED <<attrLists, sp>>
    /\ pc' = "SP_create"
    /\ UNCHANGED <<execInfo, applicationNameForError, cfg, stage, ret, error, endingScriptError, isPowershellInstalled,
                   reports, exitCode, children, launches, calls, failed, waitFailed,
                   handles>>

Launch(s, api, ok, req, attr) ==
    Append(launches, [stage |-> s, api |-> api, ok |-> ok, attrReq |-> req, attr |-> attr])

StartProcessCreate ==
    /\ pc = "SP_create"
    /\ \/ /\ launches' = Launch(stage, "CreateProcessW", TRUE, sp.riv, sp.attr)
          /\ children' = [children EXCEPT ![stage] = "running"]
          /\ handles' = handles \cup {stage}
          /\ pc' = "SP_wait"
          /\ UNCHANGED <<ret, failed>>
       \/ \E err \in OsErrors :
            /\ launches' = Launch(stage, "CreateProcessW", FALSE, sp.riv, sp.attr)
            /\ ret' = MkError("ERROR: Failed to create a process", err)
            /\ failed' = Fail(stage, ret')
            /\ pc' = "StageRet"
            /\ UNCHANGED <<children, handles>>
    /\ UNCHANGED <<execInfo, applicationNameForError, cfg, stage, sp, error, endingScriptError, isPowershellInstalled,
                   reports, exitCode, calls, waitFailed, attrLists>>

\* variant: the wait returns although the child has not exited
StartProcessWait_NoWait ==
    /\ pc = "SP_wait"
    /\ \/ /\ ret' = NoError
          /\ UNCHANGED <<failed, waitFailed>>
       \/ \E err \in OsErrors :
            /\ ret' = MkError("Running process failed.", err)
            /\ failed' = Fail(stage, ret')
            /\ waitFailed' = waitFailed \cup {stage}
    /\ pc' = "StageRet"
    /\ UNCHANGED <<execInfo, applicationNameForError, cfg, stage, sp, error, endingScriptError, isPowershellInstalled,
                   reports, exitCode, children, launches, calls, handles, attrLists>>

\* variant: the wait is on a handle that is never signalled
StartProcessWait_NeverSignalled ==
    /\ pc = "SP_wait"
    /\ children[stage] = "signalled"
    /\ ret' = NoError
    /\ pc' = "StageRet"
    /\ UNCHANGED <<execInfo, applicationNameForError, cfg, stage, sp, error,
                   endingScriptError, isPowershellInstalled, reports, exitCode, children,
                   launches, calls, failed, waitFailed, handles, attrLists>>

\* WaitForSingleObject(hProcess, INFINITE): WAIT_OBJECT_0 once the child has
\* exited, or WAIT_FAILED
StartProcessWait ==
    /\ pc = "SP_wait"
    /\ \/ /\ children[stage] = "exited"
          /\ ret' = NoError
          /\ UNCHANGED <<failed, waitFailed>>
       \/ \E err \in OsErrors :
            /\ ret' = MkError("Running process failed.", err)
            /\ failed' = Fail(stage, ret')
            /\ waitFailed' = waitFailed \cup {stage}
    /\ pc' = "StageRet"
    /\ UNCHANGED <<execInfo, applicationNameForError, cfg, stage, sp, error, endingScriptError, isPowershellInstalled,
                   reports, exitCode, children, launches, calls, handles, attrLists>>

\* a child process ends, whenever it likes
ChildExit ==
    /\ \E s \in Stages :
         /\ children[s] = "running"
         /\ children' = [children EXCEPT ![s] = "exited"]
    /\ UNCHANGED <<execInfo, applicationNameForError, cfg, pc, stage, sp, ret, error, endingScriptError,
                   isPowershellInstalled, reports, exitCode, launches, calls, failed,
                   waitFailed, handles, attrLists>>

\* variant: a successful starting script leads straight to the application
PreScriptReturn_SkipsMonitor ==
    /\ pc = "StageRet"
    /\ stage = "pre"
    /\ error' = ret
    /\ calls' = Append(calls, <<"ret", "pre">>)
    /\ stage' = "none"
    /\ IF ret.isErr
         THEN ReportAndReturn(PrintError(ret), ret.code)
         ELSE /\ pc' = "Primary"
              /\ UNCHANGED <<reports, exitCode>>
    /\ UNCHANGED <<execInfo, applicationNameForError, cfg, sp, ret, endingScriptError, isPowershellInstalled, children,
                   launches, failed, waitFailed, handles, attrLists>>

\* variant: the error of the starting script is reported without the return
PreScriptReturn_ReportsAndGoesOn ==
    /\ pc = "StageRet"
    /\ stage = "pre"
    /\ error' = ret
    /\ calls' = Append(calls, <<"ret", "pre">>)
    /\ stage' = "none"
    /\ reports' = IF ret.isErr THEN Append(reports, PrintError(ret)) ELSE reports
    /\ pc' = "Monitor"
    /\ UNCHANGED <<execInfo, applicationNameForError, cfg, sp, ret, endingScriptError, isPowershellInstalled, children,
                   launches, failed, waitFailed, handles, attrLists, exitCode>>

PreScriptReturn ==
    /\ pc = "StageRet"
    /\ stage = "pre"
    /\ error' = ret
    /\ calls' = Append(calls, <<"ret", "pre">>)
    /\ stage' = "none"
    /\ IF ret.isErr
         THEN ReportAndReturn(PrintError(ret), ret.code)
         ELSE /\ pc' = "Monitor"
              /\ UNCHANGED <<reports, exitCode>>
    /\ UNCHANGED <<execInfo, applicationNameForError, cfg, sp, ret, endingScriptError, isPowershellInstalled, children,
                   launches, failed, waitFailed, handles, attrLists>>

----------------------------------------------------------------------------
(* Monitor stage: GetAndLaunchMonitor, LaunchMonitorInBackground *)

LaunchMonitor ==
    /\ pc = "Monitor"
    /\ IF ~cfg.monitor.present
         THEN /\ pc' = "Primary"
              /\ UNCHANGED <<stage, calls, sp>>
         ELSE /\ stage' = "monitor"
              /\ calls' = Append(calls, <<"call", "monitor">>)
              /\ IF cfg.monitor.asAdmin
                   THEN /\ pc' = "MonitorShellExecute"
                        /\ sp' = sp
                   ELSE /\ sp' = [app |-> "monitor.executable", riv |-> FALSE,
                                  attr |-> FALSE]
                        /\ pc' = "SP_attr"
    /\ UNCHANGED <<execInfo, applicationNameForError, cfg, ret, error, endingScriptError, isPowershellInstalled, reports,
                   exitCode, children, launches, failed, waitFailed, handles, attrLists>>

\* ShellExecuteEx with verb "runas"; on failure the ErrorInformation is built
\* in a local of the else-branch and the function goes on to `return {}`
MonitorShellExecute ==
    /\ pc = "MonitorShellExecute"
    /\ \/ /\ launches' = Launch("monitor", "runas", TRUE, FALSE, FALSE)
          /\ children' = [children EXCEPT !["monitor"] = "running"]
          /\ handles' = handles \cup {"monitor"}
          /\ IF cfg.monitor.wait
               THEN /\ pc' = "MonitorWait"
                    /\ ret' = ret
               ELSE /\ pc' = "StageRet"
                    /\ ret' = NoError
          /\ failed' = failed
       \/ \E err \in OsErrors :
            /\ launches' = Launch("monitor", "runas", FALSE, FALSE, FALSE)
            /\ failed' = Fail("monitor",
                              MkError("error starting monitor using ShellExecuteEx", err))
            /\ ret' = NoError
            /\ pc' = "StageRet"
            /\ UNCHANGED <<children, handles>>
    /\ UNCHANGED <<execInfo, applicationNameForError, cfg, stage, sp, error, endingScriptError, isPowershellInstalled,
                   reports, exitCode, calls, waitFailed, attrLists>>

\* WaitForSingleObject(shExInfo.hProcess, INFINITE), result not looked at;
\* CloseHandle(shExInfo.hProcess)
MonitorWait ==
    /\ pc = "MonitorWait"
    /\ \/ /\ children["monitor"] = "exited"
          /\ waitFailed' = waitFailed
       \/ waitFailed' = waitFailed \cup {"monitor"}
    /\ handles' = handles \ {"monitor"}
    /\ ret' = NoError
    /\ pc' = "StageRet"
    /\ UNCHANGED <<execInfo, applicationNameForError, cfg, stage, sp, error, endingScriptError, isPowershellInstalled,
                   reports, exitCode, children, launches, calls, failed, attrLists>>

MonitorReturn ==
    /\ pc = "StageRet"
    /\ stage = "monitor"
    /\ error' = IF cfg.monitor.asAdmin THEN ret
                ELSE AddExeName(ret, "monitor.executable")
    /\ calls' = Append(calls, <<"ret", "monitor">>)
    /\ stage' = "none"
    /\ pc' = "Primary"
    /\ UNCHANGED <<execInfo, applicationNameForError, cfg, sp, ret, endingScriptError, isPowershellInstalled, reports,
                   exitCode, children, launches, failed, waitFailed, handles, attrLists>>

----------------------------------------------------------------------------
(* Primary application stage *)

LaunchPrimary ==
    /\ pc = "Primary"
    /\ IF error.isErr
         THEN /\ pc' = "PostScript"
              /\ UNCHANGED <<stage, calls, sp>>
         ELSE /\ stage' = "primary"
              /\ calls' = Append(calls, <<"call", "primary">>)
              /\ IF check_suffix_if(cfg.executable, DotExe)
                   THEN /\ sp' = [app |-> "exePath", riv |-> FALSE, attr |-> FALSE]
                        /\ pc' = "SP_attr"
                   ELSE /\ pc' = "ShellExecute"
                        /\ sp' = sp
    /\ UNCHANGED <<execInfo, applicationNameForError, cfg, ret, error, endingScriptError, isPowershellInstalled, reports,
                   exitCode, children, launches, failed, waitFailed, handles, attrLists>>

StartWithShellExecute ==
    /\ pc = "ShellExecute"
    /\ \/ /\ launches' = Launch("primary", "ShellExecuteEx", TRUE, FALSE, FALSE)
          /\ children' = [children EXCEPT !["primary"] = "running"]
          /\ handles' = handles \cup {"primary"}
          /\ ret' = NoError
          /\ failed' = failed
       \/ \E err \in OsErrors :
            /\ launches' = Launch("primary", "ShellExecuteEx", FALSE, FALSE, FALSE)
            /\ ret' = MkError("ERROR: Failed to create detoured shell process", err)
            /\ failed' = Fail("primary", ret')
            /\ UNCHANGED <<children, handles>>
    /\ pc' = "StageRet"
    /\ UNCHANGED <<execInfo, applicationNameForError, cfg, stage, sp, error, endingScriptError, isPowershellInstalled,
                   reports, exitCode, calls, waitFailed, attrLists>>

PrimaryReturn ==
    /\ pc = "StageRet"
    /\ stage = "primary"
    /\ error' = IF check_suffix_if(cfg.executable, DotExe)
                  THEN AddExeName(ret, "entry.executable")
                  ELSE ret
    /\ calls' = Append(calls, <<"ret", "primary">>)
    /\ stage' = "none"
    /\ pc' = "PostScript"
    /\ UNCHANGED <<execInfo, applicationNameForError, cfg, sp, ret, endingScriptError, isPowershellInstalled, reports,
                   exitCode, children, launches, failed, waitFailed, handles, attrLists>>

----------------------------------------------------------------------------
(* Post-script stage and the end of launcher_main *)

\* variant: the end script is skipped once an earlier stage has left an error
LaunchPostScript_SkipsAfterError ==
    /\ pc = "PostScript"
    /\ IF cfg.post.present /\ ~error.isErr
         THEN /\ stage' = "post"
              /\ calls' = Append(calls, <<"call", "post">>)
              /\ pc' = "RunScript"
              /\ exitCode' = exitCode
         ELSE /\ Return(error.code)
              /\ UNCHANGED <<stage, calls>>
    /\ UNCHANGED <<execInfo, applicationNameForError, cfg, sp, ret, error, endingScriptError, isPowershellInstalled,
                   reports, children, launches, failed, waitFailed, handles, attrLists>>

LaunchPostScript ==
    /\ pc = "PostScript"
    /\ IF cfg.post.present
         THEN /\ stage' = "post"
              /\ calls' = Append(calls, <<"call", "post">>)
              /\ pc' = "RunScript"
              /\ exitCode' = exitCode
         ELSE /\ Return(0)
              /\ UNCHANGED <<stage, calls>>
    /\ UNCHANGED <<execInfo, applicationNameForError, cfg, sp, ret, error, endingScriptError, isPowershellInstalled,
                   reports, children, launches, failed, waitFailed, handles, attrLists>>

\* variant: the ending script's error is looked at before the carried one
PostScriptReturn_EndErrorFirst ==
    /\ pc = "StageRet"
    /\ stage = "post"
    /\ endingScriptError' = ret
    /\ error' = AddExeName(error, "PowerShell.exe")
    /\ calls' = Append(calls, <<"ret", "post">>)
    /\ stage' = "none"
    /\ IF endingScriptError'.isErr
         THEN ReportAndReturn(PrintError(endingScriptError'), endingScriptError'.code)
       ELSE IF error'.isErr
         THEN ReportAndReturn(PrintError(error'), error'.code)
       ELSE /\ Return(0)
            /\ reports' = reports
    /\ UNCHANGED <<execInfo, applicationNameForError, cfg, sp, ret, isPowershellInstalled, children, launches, failed,
                   waitFailed, handles, attrLists>>

PostScriptReturn ==
    /\ pc = "StageRet"
    /\ stage = "post"
    /\ endingScriptError' = ret
    /\ error' = AddExeName(error, "PowerShell.exe")
    /\ calls' = Append(calls, <<"ret", "post">>)
    /\ stage' = "none"
    /\ IF error'.isErr
         THEN ReportAndReturn(PrintError(error'), error'.code)
       ELSE IF endingScriptError'.isErr
         THEN ReportAndReturn(PrintError(endingScriptError'), endingScriptError'.code)
       ELSE /\ Return(0)
            /\ reports' = reports
    /\ UNCHANGED <<execInfo, applicationNameForError, cfg, sp, ret, isPowershellInstalled, children, launches, failed,
                   waitFailed, handles, attrLists>>

----------------------------------------------------------------------------

\* the steps of the launcher itself, as opposed to those of its children
LauncherStep ==
    \/ QueryConfig
    \/ CatchHandler
    \/ ProbePowershell
    \/ LaunchPreScript
    \/ RunScript
    \/ StartProcessAttributes
    \/ StartProcessCreate
    \/ StartProcessWait
    \/ PreScriptReturn
    \/ LaunchMonitor
    \/ MonitorShellExecute
    \/ MonitorWait
    \/ MonitorReturn
    \/ LaunchPrimary
    \/ StartWithShellExecute
    \/ PrimaryReturn
    \/ LaunchPostScript
    \/ PostScriptReturn

Next ==
    \/ LauncherStep
    \/ ChildExit

Spec == Init /\ [][Next]_vars

\* positions where the launcher is inside WaitForSingleObject(..., INFINITE)
WaitPcs == {"SP_wait", "MonitorWait"}

\* the child the launcher is waiting on exits
WaitedChildExit ==
    /\ pc \in WaitPcs
    /\ children[stage] = "running"
    /\ children' = [children EXCEPT ![stage] = "exited"]
    /\ ChildExit

\* every OS call returns and every child that is waited on exits
FairSpec == Spec /\ WF_vars(LauncherStep) /\ WF_vars(WaitedChildExit)

----------------------------------------------------------------------------
(* StartProcess: the name in the message of a failed CreateProcessW, as a   *)
(* function of the ExecutionInformation, with a specification of its own    *)
(* that applies it to every small command line.                             *)

\* longest command line tried
MaxCmdLen == 5

\* std::wstring::npos, the largest value of the index type
NPos == 2147483647

Quote == "\""

Chars == {Quote, " ", "a", "b"}

CmdLines == UNION {[1 .. n -> Chars] : n \in 0 .. MaxCmdLen}

AppNames == {<<"a", " ", "b">>}

ExecInfos ==
    [hasApp : {FALSE}, app : {<<>>}, cmd : CmdLines]
    \cup [hasApp : {TRUE}, app : AppNames, cmd : CmdLines]

\* str[i], 0-based; str[str.size()] is the terminating null character
At(str, i) == IF i < Len(str) THEN str[i + 1] ELSE "\\0"

\* str.find(c, pos): the 0-based index of the first c at or after pos, or npos
Find(str, c, pos) ==
    LET hits == {i \in pos .. (Len(str) - 1) : str[i + 1] = c}
    IN  IF hits = {} THEN NPos
        ELSE CHOOSE i \in hits : \A j \in hits : i <= j

\* str.substr(pos, count) for pos <= str.size(): at most count characters
Substr(str, pos, count) ==
    LET rlen == IF count > Len(str) - pos THEN Len(str) - pos ELSE count
    IN  SubSeq(str, pos + 1, pos + rlen)

\* variant: the closing quote is not cut off
ApplicationNameForError_KeepsQuote(info) ==
    IF info.hasApp
      THEN info.app
    ELSE IF At(info.cmd, 0) = Quote
      THEN Substr(info.cmd, 1, Find(info.cmd, Quote, 1))
    ELSE Substr(info.cmd, 0, Find(info.cmd, " ", 0))

ApplicationNameForError(info) ==
    IF info.hasApp
      THEN info.app
    ELSE IF At(info.cmd, 0) = Quote
      THEN Substr(info.cmd, 1, Find(info.cmd, Quote, 1) - 1)
    ELSE Substr(info.cmd, 0, Find(info.cmd, " ", 0))

InitName ==
    /\ cfg = [hasConfig |-> TRUE, pre |-> NoScript, post |-> NoScript,
              monitor |-> NoMonitor, executable |-> <<"a", ".", "e", "x", "e">>]
    /\ pc = "CreateFailed"
    /\ stage = "none"
    /\ sp = NoCall
    /\ ret = NoError
    /\ error = NoError
    /\ endingScriptError = NoError
    /\ isPowershellInstalled = FALSE
    /\ reports = <<>>
    /\ exitCode = 0
    /\ children = [s \in Stages |-> "none"]
    /\ launches = <<>>
    /\ calls = <<>>
    /\ failed = <<>>
    /\ waitFailed = {}
    /\ handles = {}
    /\ attrLists = {}
    /\ execInfo \in ExecInfos
    /\ applicationNameForError = <<>>

\* the else-branch of `if (::CreateProcessW(...))`
DescribeCreateFailure ==
    /\ pc = "CreateFailed"
    /\ applicationNameForError' = ApplicationNameForError(execInfo)
    /\ \E err \in OsErrors :
         ret' = MkError("ERROR: Failed to create a process", err)
    /\ pc' = "CreateFailureReturned"
    /\ UNCHANGED <<execInfo, cfg, stage, sp, error, endingScriptError,
                   isPowershellInstalled, reports, exitCode, children, launches, calls,
                   failed, waitFailed, handles, attrLists>>

NextName == DescribeCreateFailure

SpecName == InitName /\ [][NextName]_vars

----------------------------------------------------------------------------
(* Vocabulary of the properties *)

Done == pc = "Done"

FailedIn(S) == \E i \in DOMAIN failed : failed[i].stage \in S

Called(s) == \E i \in DOMAIN calls : calls[i] = <<"call", s>>

Returned(s) == \E i \in DOMAIN calls : calls[i] = <<"ret", s>>

ChildLaunched(S) == \E i \in DOMAIN launches : launches[i].stage \in S /\ launches[i].ok

LaunchOrder == [i \in DOMAIN launches |-> launches[i].stage]

AllConfigured ==
    cfg.hasConfig /\ cfg.pre.present /\ cfg.monitor.present /\ cfg.post.present

DirectExec == check_suffix_if(cfg.executable, DotExe)

\* the probe ran to its end and answered "not installed"
ProbeSaidNotInstalled ==
    /\ pc \notin {"Start", "Catch", "Probe"}
    /\ ~FailedIn({"config", "probe"})
    /\ ~isPowershellInstalled

----------------------------------------------------------------------------
(* C1: every failure (no launch entry, interpreter missing, script file     *)
(* missing, launch failure, abnormal wait) is reported exactly once and     *)
(* launcher_main returns that error's code; it returns 0 only when every    *)
(* stage that ran succeeded -- in every configuration, also without a       *)
(* postScript.                                                              *)
C1_FailuresSurfaced ==
    Done =>
      /\ failed # <<>> =>
           /\ Len(reports) = 1
           /\ reports[1].msg = Head(failed).msg
           /\ exitCode = Head(failed).code
      /\ exitCode = 0 => failed = <<>>

(* C2 as claimed: with a postScript configured, the post-script stage is    *)
(* run in every run, whatever the earlier stages did.                       *)
C2_PostScriptAlwaysRuns ==
    (Done /\ cfg.post.present) => Called("post")

(* C2: with a postScript configured, the post-script stage is run in every  *)
(* run that gets past the probe and the pre-script stage, whatever the      *)
(* monitor and the primary application did; a run that fails in the probe   *)
(* or the pre-script stage returns without running it.                      *)
C2_PostScriptRunsAfterPreStage ==
    (Done /\ cfg.post.present) =>
      (Called("post") <=> ~FailedIn({"probe", "pre"}))

C2_Witness ==
    /\ Done
    /\ cfg.post.present
    /\ FailedIn({"monitor", "primary"})
    /\ Returned("post")

(* C3: in a successful run with preScript, monitor, primary and postScript  *)
(* configured the children are started once each, in the order preScript,   *)
(* monitor, primary, postScript; and in any run a stage is entered only     *)
(* after every stage entered before it has returned, in pipeline order.     *)
C3_Ordering ==
    /\ (Done /\ AllConfigured /\ exitCode = 0 /\ failed = <<>>) =>
         /\ LaunchOrder = <<"pre", "monitor", "primary", "post">>
         /\ \A i \in DOMAIN launches : launches[i].ok
    /\ \A i, j \in DOMAIN calls :
         (i < j /\ calls[i][1] = "call" /\ calls[j][1] = "call") =>
           /\ StageOrder(calls[i][2]) < StageOrder(calls[j][2])
           /\ \E k \in (i + 1) .. (j - 1) : calls[k] = <<"ret", calls[i][2]>>
    /\ \A i, j \in DOMAIN launches :
         i < j => StageOrder(launches[i].stage) < StageOrder(launches[j].stage)
    /\ \A i \in DOMAIN launches :
         Called(launches[i].stage) /\
         (Returned(launches[i].stage) \/ stage = launches[i].stage)

C3_Witness ==
    /\ Done
    /\ AllConfigured
    /\ exitCode = 0
    /\ failed = <<>>
    /\ Len(launches) = 4

(* C4: PSFReportError is called at most once in a run, and a call is        *)
(* followed at once by the return of a non-zero code: once something is     *)
(* reported the launcher takes no further step.                             *)
C4_SingleReport ==
    /\ Len(reports) <= 1
    /\ reports # <<>> =>
         /\ Done
         /\ exitCode # 0
         /\ stage = "none"
         /\ ~ENABLED LauncherStep

C4_Witness ==
    /\ Len(reports) = 1
    /\ Done
    /\ ChildLaunched({"primary"})
    /\ Returned("post")

(* C5: when an earlier stage (monitor or primary) and the post-script both  *)
(* fail, the reporter gets the earlier stage's error and the exit code is   *)
(* that error's code.                                                       *)
C5_EarlierErrorWins ==
    \A i, j \in DOMAIN failed :
      (Done /\ failed[i].stage \in {"monitor", "primary"} /\ failed[j].stage = "post") =>
        /\ Len(reports) = 1
        /\ reports[1].msg = failed[i].msg
        /\ reports[1].code = failed[i].code
        /\ exitCode = failed[i].code

(* C6: once the probe, the pre-script or the monitor stage has failed (a    *)
(* failed elevated activation of the monitor included), no monitor child    *)
(* and no primary-application child is launched.                            *)
C6_NoLaunchAfterFailure ==
    /\ FailedIn({"probe", "pre"}) => ~ChildLaunched({"monitor", "primary"})
    /\ FailedIn({"monitor"}) => ~ChildLaunched({"primary"})

(* C7: whenever a script is configured (preScript or postScript) and the    *)
(* probe answers "not installed", the reporter gets the not-installed text, *)
(* the exit code is E_APPLICATION_NOT_REGISTERED and no script child is     *)
(* launched.                                                                *)
C7_InterpreterMissing ==
    (ProbeSaidNotInstalled /\ (cfg.pre.present \/ cfg.post.present)) =>
      /\ \A i \in DOMAIN launches : launches[i].stage \notin {"pre", "post"}
      /\ Done =>
           /\ reports = <<Text("PowerShell is not installed")>>
           /\ exitCode = E_APPLICATION_NOT_REGISTERED

C9_NoWaitOnBackgroundMonitor ==
    (cfg.monitor.present /\ ~cfg.monitor.wait) =>
      ~(stage = "monitor" /\ pc \in {"SP_wait", "MonitorWait"})

(* C10: StartProcess does not return after a successful CreateProcessW      *)
(* before the child has exited or the wait has failed; so with the          *)
(* direct-exec strategy the post-script is not started and launcher_main    *)
(* does not return while the primary application is still running.          *)
C10_StartProcessSynchronous ==
    /\ \A i \in DOMAIN launches :
         LET s == launches[i].stage
         IN  (/\ launches[i].api = "CreateProcessW"
              /\ launches[i].ok
              /\ children[s] = "running"
              /\ s \notin waitFailed)
               => (pc = "SP_wait" /\ stage = s)
    /\ (DirectExec /\ children["primary"] = "running" /\ "primary" \notin waitFailed) =>
         (~Done /\ ~Called("post"))

C10_Witness ==
    /\ DirectExec
    /\ Done
    /\ children["primary"] = "exited"
    /\ "primary" \notin waitFailed
    /\ Returned("post")

(* C11: every handle to a spawned child and the attribute list memory is   *)
(* released by the stage that acquired it on each of its exit paths; when   *)
(* launcher_main returns, no child handle and no attribute list acquired    *)
(* in the run is still open.                                                *)
C11_HandlesReleased ==
    /\ \A s \in Stages : Returned(s) => (s \notin handles /\ s \notin attrLists)
    /\ Done => (handles = {} /\ attrLists = {})

\* the configured executable ends in ".exe", whatever the case of its letters
EndsInDotExe ==
    LET e == cfg.executable
        n == Len(e)
    IN  /\ n >= 4
        /\ e[n - 3] = "."
        /\ e[n - 2] \in {"e", "E"}
        /\ e[n - 1] \in {"x", "X"}
        /\ e[n] \in {"e", "E"}

PrimaryLaunches == {i \in DOMAIN launches : launches[i].stage = "primary"}

(* C12: the primary-app stage uses one launch strategy per run: direct-exec *)
(* (CreateProcessW through StartProcess) when the configured executable     *)
(* ends in .exe compared without case, shell-activation (ShellExecuteEx)    *)
(* otherwise, also for an executable shorter than the suffix.               *)
C12_SuffixDispatch ==
    /\ Cardinality(PrimaryLaunches) <= 1
    /\ \A i \in PrimaryLaunches :
         launches[i].api = IF EndsInDotExe THEN "CreateProcessW" ELSE "ShellExecuteEx"
    /\ (stage = "primary" /\ pc \in {"SP_attr", "SP_create", "SP_wait"}) => EndsInDotExe
    /\ pc = "ShellExecute" => ~EndsInDotExe

C12_Witness ==
    /\ cfg.executable = <<"a", ".", "E", "X", "e">>
    /\ Done
    /\ \E i \in PrimaryLaunches : launches[i].api = "CreateProcessW" /\ launches[i].ok

(* C14: when the monitor and primary stages leave the accumulator empty    *)
(* and the post-script fails, the reporter gets the post-script's error and *)
(* the exit code is that error's code; when the accumulator is not empty    *)
(* it is the accumulator's error that is reported, never the post-script's. *)
C14_PostScriptErrorReported ==
    (Done /\ Returned("post")) =>
      /\ (~error.isErr /\ FailedIn({"post"})) =>
           /\ Len(reports) = 1
           /\ \E i \in DOMAIN failed :
                /\ failed[i].stage = "post"
                /\ reports[1].msg = failed[i].msg
                /\ reports[1].code = failed[i].code
                /\ exitCode = failed[i].code
      /\ error.isErr =>
           /\ Len(reports) = 1
           /\ reports[1].msg = error.msg
           /\ reports[1].code = error.code
           /\ exitCode = error.code
           /\ \E i \in DOMAIN failed :
                /\ failed[i].stage \in {"monitor", "primary"}
                /\ failed[i].msg = error.msg
                /\ failed[i].code = error.code

C14_Witness ==
    /\ Done
    /\ ~error.isErr
    /\ FailedIn({"post"})
    /\ ChildLaunched({"primary"})
    /\ Len(reports) = 1

(* C15: when the monitor is configured with asAdmin=true and the elevated   *)
(* ShellExecuteEx fails, the monitor stage returns an error that carries    *)
(* the OS error code and the monitor executable, so launcher_main's `error` *)
(* is set after the stage.                                                  *)
C15_ElevatedFailureReturned ==
    \A i \in DOMAIN failed :
      (/\ cfg.monitor.asAdmin
       /\ failed[i].stage = "monitor"
       /\ pc = "Primary") =>
        /\ error.isErr
        /\ error.code = failed[i].code
        /\ error.exe = "monitor.executable"

ElevatedActivations == {i \in DOMAIN launches : launches[i].api = "runas"}

(* C16: with a monitor configured with asAdmin=true and wait=true exactly   *)
(* one elevated activation is issued for the monitor, and the primary       *)
(* application is not started before the monitor process has exited.        *)
C16_ElevatedMonitorAwaited ==
    (cfg.monitor.present /\ cfg.monitor.asAdmin /\ cfg.monitor.wait) =>
      /\ Cardinality(ElevatedActivations) <= 1
      /\ Called("primary") =>
           /\ Cardinality(ElevatedActivations) = 1
           /\ children["monitor"] # "running"

\* the entries of `failed` made by RunScript for a script file that is not there
MissingScript(i) == failed[i].msg = "The PowerShell file can't be found"

(* C17: when the script file does not exist RunScript returns an error with *)
(* the code ERROR_FILE_NOT_FOUND and that stage creates no child; for a     *)
(* missing pre-script the run launches no child at all and returns that     *)
(* code after one report.                                                   *)
C17_MissingScript ==
    \A i \in DOMAIN failed :
      MissingScript(i) =>
        /\ failed[i].stage \in {"pre", "post"}
        /\ failed[i].code = ERROR_FILE_NOT_FOUND
        /\ children[failed[i].stage] = "none"
        /\ \A k \in DOMAIN launches : launches[k].stage # failed[i].stage
        /\ (stage = failed[i].stage /\ pc = "StageRet") =>
             ret = MkError(failed[i].msg, ERROR_FILE_NOT_FOUND)
        /\ (failed[i].stage = "pre" /\ pc \notin {"StageRet"}) =>
             /\ Done
             /\ launches = <<>>
             /\ Len(reports) = 1
             /\ reports[1].msg = failed[i].msg
             /\ exitCode = ERROR_FILE_NOT_FOUND

C17_Witness ==
    /\ Done
    /\ Len(failed) = 1
    /\ MissingScript(1)
    /\ failed[1].stage = "pre"
    /\ cfg.monitor.present
    /\ Len(reports) = 1

(* C18: the probe returns an error only when the registry key cannot be     *)
(* opened; with the key open and the install marker absent or not one it    *)
(* answers (false, ok), so that an absent marker does not keep a            *)
(* configuration without scripts from launching the primary application.    *)
C18_ProbeErrorOnlyForKey ==
    /\ \A i \in DOMAIN failed :
         failed[i].stage = "probe" => failed[i].msg = "Error with getting the key"
    /\ (/\ Done
        /\ cfg.hasConfig
        /\ ~cfg.pre.present
        /\ ~FailedIn({"monitor"})
        /\ \A i \in DOMAIN failed : failed[i].msg # "Error with getting the key")
         => Called("primary")

(* C19: the executable tag of the reported error names the stage that       *)
(* failed: entry.executable for the direct-exec primary, monitor.executable *)
(* for the non-elevated monitor, also with a postScript configured; the     *)
(* interpreter's tag is only on an error produced by a script stage.        *)
C19_TagNamesFailedStage ==
    (Done /\ reports # <<>>) =>
      /\ (DirectExec /\ FailedIn({"primary"})) => reports[1].exe = "entry.executable"
      /\ (~cfg.monitor.asAdmin /\ FailedIn({"monitor"})) =>
           reports[1].exe = "monitor.executable"
      /\ reports[1].exe = "PowerShell.exe" =>
           \E i \in DOMAIN failed :
             /\ failed[i].stage \in {"pre", "post"}
             /\ failed[i].msg = reports[1].msg
             /\ failed[i].code = reports[1].code

\* position of the first c in str at or after position p (1-based), 0 if none
FirstAt(str, c, p) ==
    IF \E j \in p .. Len(str) : str[j] = c
      THEN CHOOSE j \in p .. Len(str) : str[j] = c /\ \A k \in p .. (j - 1) : str[k] # c
      ELSE 0

(* C13: on a failed CreateProcessW the name in StartProcess's message is    *)
(* applicationName when it is not null; otherwise, for a command line that  *)
(* starts with a double quote, the text between the first pair of quotes,   *)
(* and else the text up to the first space (all of it without a space).     *)
C13_NameInCreateFailure ==
    pc = "CreateFailureReturned" =>
      LET cmd == execInfo.cmd
          name == applicationNameForError
      IN  /\ execInfo.hasApp => name = execInfo.app
          /\ (~execInfo.hasApp /\ cmd # <<>> /\ cmd[1] = Quote /\ FirstAt(cmd, Quote, 2) # 0) =>
               /\ \A k \in DOMAIN name : name[k] # Quote
               /\ <<Quote>> \o name \o <<Quote>> = SubSeq(cmd, 1, Len(name) + 2)
          /\ (~execInfo.hasApp /\ (cmd = <<>> \/ cmd[1] # Quote)) =>
               /\ \A k \in DOMAIN name : name[k] # " "
               /\ IF FirstAt(cmd, " ", 1) = 0
                    THEN name = cmd
                    ELSE name \o <<" ">> = SubSeq(cmd, 1, Len(name) + 1)

C13_Witness ==
    /\ pc = "CreateFailureReturned"
    /\ ~execInfo.hasApp
    /\ execInfo.cmd = <<Quote, "a", " ", "b", Quote>>
    /\ applicationNameForError = <<"a", " ", "b">>

(* C20: if every child the launcher waits on exits and every OS call        *)
(* returns, launcher_main eventually returns an exit code; outside the      *)
(* waits on a child handle (StartProcess, elevated monitor with wait=true)  *)
(* the launcher always has a step it can take.                              *)
C20_Terminates ==
    /\ [](~Done /\ pc \notin WaitPcs => ENABLED LauncherStep)
    /\ [](pc = "MonitorWait" => cfg.monitor.asAdmin /\ cfg.monitor.wait)
    /\ <>Done

C20_Witness ==
    /\ Done
    /\ cfg.monitor.asAdmin
    /\ cfg.monitor.wait
    /\ children["monitor"] = "exited"
    /\ children["primary"] = "exited"
    /\ DirectExec
    /\ waitFailed = {}

====
